---- MODULE Spec2Model ----
(***************************************************************************)
(* The Signed-Asset Gateway of src/index.js: an Express application whose  *)
(* handlers translate HTTP requests into calls on an S3 bucket.            *)
(*                                                                         *)
(* The bucket is the only shared state.  A handler is an async function:   *)
(* it runs without interruption up to an awaited call on the bucket, and   *)
(* other requests may run while the call is outstanding.  One action of    *)
(* the model is one such uninterrupted piece, taken at the moment the      *)
(* bucket serves the call.  getSignedUrl computes a URL from the client    *)
(* configuration and reads nothing of the bucket, so it is folded into the *)
(* piece that precedes it; it can still fault.  A storage call that faults  *)
(* has no effect on the bucket.  One GET /api/audio is followed at a time:  *)
(* listings share nothing with one another.                                *)
(*                                                                         *)
(* Strings that the code splits or concatenates (file names, keys, ids)    *)
(* are sequences of one-character strings.                                 *)
(***************************************************************************)
EXTENDS Integers, Sequences, FiniteSets, TLC

\* ------------------------------------------------------------- bounds
\* Date.now() ranges over 1..MaxTime.
MaxTime == 2
\* Upload requests that carry a file, over a whole run.
MaxUploads == 2

\* ------------------------------------------------------------- inputs
\* req.file as multer's memory storage leaves it.  The files sent to
\* POST /upload: one name with two different contents, and another name.
VideoFiles ==
  { [originalname |-> <<"c", ".", "m">>, buffer |-> <<1>>, mimetype |-> "video/mp4"],
    [originalname |-> <<"c", ".", "m">>, buffer |-> <<2, 3>>, mimetype |-> "video/mp4"],
    [originalname |-> <<"v">>, buffer |-> <<1>>, mimetype |-> "video/mp4"] }
\* The files sent to POST /api/audio: a name with an extension, a name without.
AudioFiles ==
  { [originalname |-> <<"d", ".", "w">>, buffer |-> <<1>>, mimetype |-> "audio/wav"],
    [originalname |-> <<"a">>, buffer |-> <<2, 3>>, mimetype |-> "audio/wav"] }
\* req.file of a request whose body holds no file (undefined in the code)
NoFile == [originalname |-> <<>>, buffer |-> <<>>, mimetype |-> "undefined"]
\* An id no upload ever produced, for GET and DELETE /api/audio/:id
GhostId == <<"x">>

\* ------------------------------------------------------------- faults
\* A call that did not fault.
NoErr == [name |-> "none", message |-> ""]
\* Faults any call on the storage client may raise, whatever the bucket holds.
Faults == { [name |-> "TimeoutError", message |-> "socket hang up"] }
\* What HeadObject raises for a key the bucket does not hold.
NotFoundErr == [name |-> "NotFound", message |-> "UnknownError"]
\* What response.Contents.map raises when Contents is undefined.
TypeErr == [name |-> "TypeError",
            message |-> "Cannot read properties of undefined (reading 'map')"]
Outcomes == {NoErr} \cup Faults

\* ------------------------------------------------------------ strings
DigitChar(d) ==
  CASE d = 0 -> "0" [] d = 1 -> "1" [] d = 2 -> "2" [] d = 3 -> "3"
    [] d = 4 -> "4" [] d = 5 -> "5" [] d = 6 -> "6" [] d = 7 -> "7"
    [] d = 8 -> "8" [] d = 9 -> "9"

RECURSIVE Digits(_)
\* Date.now().toString(): the decimal digits of n
Digits(n) ==
  IF n < 10 THEN <<DigitChar(n)>>
  ELSE Digits(n \div 10) \o <<DigitChar(n % 10)>>

\* s.split(c).pop(): the text after the last c, the whole of s when c is absent
SplitPop(s, c) ==
  IF \E i \in 1..Len(s) : s[i] = c
  THEN LET last == CHOOSE i \in 1..Len(s) :
                     s[i] = c /\ \A j \in (i+1)..Len(s) : s[j] # c
       IN SubSeq(s, last + 1, Len(s))
  ELSE s

StartsWith(s, p) == Len(s) >= Len(p) /\ SubSeq(s, 1, Len(p)) = p

AudioPrefix == <<"a", "u", "d", "i", "o", "/">>
NoPrefix == <<>>

\* uuidv4(): the n-th identifier the generator hands out.  Version-4 UUIDs
\* carry 122 random bits; the generator is taken never to repeat a value.
Uuid(n) == <<"u">> \o Digits(n)

\* Key of POST /upload
PlainKey(t, file) == Digits(t) \o <<"-">> \o file.originalname

\* fileExtension of POST /api/audio
FileExtension(file) == SplitPop(file.originalname, ".")

\* Mutant: the id is built like the plain key, without a UUID
FileIdNoUuid(t, u, file) == Digits(t) \o <<"-">> \o file.originalname

\* fileId of POST /api/audio
FileId(t, u, file) ==
  Digits(t) \o <<"-">> \o Uuid(u) \o <<".">> \o FileExtension(file)

\* The key GET, DELETE and POST /api/audio address for an id
AudioKey(id) == AudioPrefix \o id

\* fileUrl of POST /upload
FileUrl(key) == <<"https://bucket.s3.region.amazonaws.com/">> \o key

\* getSignedUrl(s3Client, new GetObjectCommand({Key}), {expiresIn: 3600})
SignedUrl(key) == [get |-> key, expiresIn |-> 3600]

\* ------------------------------------------------------------- bucket
\* Metadata of an object stored without user metadata
NoMeta == [originalname |-> <<>>]

\* PutObjectCommand of POST /upload
PlainObject(file) ==
  [Body |-> file.buffer, ContentType |-> file.mimetype, Metadata |-> NoMeta]

\* PutObjectCommand of POST /api/audio
AudioObject(file) ==
  [Body |-> file.buffer, ContentType |-> file.mimetype,
   Metadata |-> [originalname |-> file.originalname]]

\* The bucket after a PutObject that did not fault: the key holds the object,
\* whatever it held before.
PutObject(b, key, obj) == (key :> obj) @@ b

\* Mutant: the delete addresses a key the bucket does not hold
DeleteObjectMisses(b, key) == b

\* Mutant: the delete addresses the whole audio/ prefix
DeleteObjectWholePrefix(b, key) ==
  [k \in {x \in DOMAIN b : ~StartsWith(x, AudioPrefix)} |-> b[k]]

\* The bucket after a DeleteObject that did not fault: an absent key is no fault.
DeleteObject(b, key) == [k \in (DOMAIN b) \ {key} |-> b[k]]

RECURSIVE Enumerate(_)
\* Some order of a set of keys (the order of a listing is the bucket's own).
Enumerate(S) ==
  IF S = {} THEN <<>>
  ELSE LET k == CHOOSE x \in S : TRUE IN <<k>> \o Enumerate(S \ {k})

\* The output of a ListObjectsV2 that did not fault.  The client leaves
\* Contents undefined when no key matches.
ListObjectsV2(b, prefix) ==
  LET keys == {k \in DOMAIN b : StartsWith(k, prefix)}
      order == Enumerate(keys)
  IN [hasContents |-> keys # {},
      Contents |-> [i \in 1..Len(order) |->
                      [Key |-> order[i], Size |-> Len(b[order[i]].Body)]]]

\* Mutant: the stored name is never read, the fallback is always used
OriginalNameIgnoresMetadata(metadata, fallback) == fallback

\* metadata.Metadata?.originalname || fallback
OriginalName(metadata, fallback) ==
  IF metadata.originalname # <<>> THEN metadata.originalname ELSE fallback


\* ---------------------------------------------------------- responses
\* A response with nothing recorded about the request that got it.
Reply(op, status, body) ==
  [op |-> op, status |-> status, body |-> body,
   file |-> NoFile, calls |-> <<>>, err |-> NoErr, id |-> <<>>,
   existed |-> FALSE, items |-> <<>>, raced |-> FALSE]

NoResp == Reply("none", 0, [none |-> TRUE])

\* Mutant: the check for a missing file is gone
MissingNever(file) == FALSE

\* !req.file
Missing(file) == file = NoFile

\* GET /
LivenessReply == Reply("live", 200, [message |-> "Server is Fine"])

\* POST /upload
UploadNoFile == Reply("upload", 400, [error |-> "No file uploaded"])

UploadOk(key) ==
  Reply("upload", 200,
        [message |-> "Upload successful", location |-> FileUrl(key), key |-> key])

\* Mutant: the 500 of POST /upload carries the label alone
UploadFailedNoDetails(err) == Reply("upload", 500, [error |-> "Upload failed"])

UploadFailed(err) ==
  Reply("upload", 500, [error |-> "Upload failed", details |-> err.message])

\* GET /videos
VideosOk(contents) ==
  Reply("videos", 200,
        [i \in 1..Len(contents) |->
           [name |-> contents[i].Key, url |-> SignedUrl(contents[i].Key),
            size |-> contents[i].Size]])

VideosFailed(err) == Reply("videos", 500, [error |-> "Failed to fetch videos"])

\* POST /api/audio
AudioParseError(err) ==
  Reply("audioUpload", 400,
        [error |-> "Audio upload error", details |-> err.message])

AudioNoFile == Reply("audioUpload", 400, [error |-> "No audio file uploaded"])

AudioUploadOk(id, file, t) ==
  Reply("audioUpload", 201,
        [id |-> id, name |-> file.originalname,
         audioUrl |-> SignedUrl(AudioKey(id)), createdAt |-> t,
         size |-> Len(file.buffer), type |-> file.mimetype])

AudioUploadFailed(err) ==
  Reply("audioUpload", 500,
        [error |-> "Audio upload failed", details |-> err.message])

\* GET /api/audio: what the map callback returns for an object whose head and
\* mint both succeeded
AudioEntry(item) ==
  [id |-> SplitPop(item.Key, "/"), name |-> item.name,
   url |-> SignedUrl(item.Key), size |-> item.Size,
   type |-> SplitPop(item.Key, ".")]

\* Mutant: only the head is inside the try block's reach
SurvivorsHeadOnly(items) == SelectSeq(items, LAMBDA it : it.head = "ok")

\* audioFiles.filter(file => file !== null): the callback returned null for
\* the items whose try block threw
Survivors(items) == SelectSeq(items, LAMBDA it : it.head = "ok" /\ it.sign = "ok")

AudioListFailed(err) ==
  Reply("audioList", 500, [error |-> "Failed to fetch audio recordings"])

\* Mutant: the callback has no try block of its own, so one object's fault
\* rejects Promise.all and reaches the outer catch
AudioListAllOrNothing(items) ==
  LET kept == Survivors(items)
  IN IF Len(kept) < Len(items)
     THEN Reply("audioList", 500, [error |-> "Failed to fetch audio recordings"])
     ELSE Reply("audioList", 200, [i \in 1..Len(kept) |-> AudioEntry(kept[i])])

AudioListOk(items) ==
  LET kept == Survivors(items)
  IN Reply("audioList", 200, [i \in 1..Len(kept) |-> AudioEntry(kept[i])])

\* GET /api/audio/:id
AudioGetOk(id, metadata) ==
  Reply("audioGet", 200,
        [id |-> id, name |-> OriginalName(metadata, id),
         url |-> SignedUrl(AudioKey(id))])

\* Mutant: the not-found signal is not told apart from other faults
AudioGetFailedAlways500(err) ==
  Reply("audioGet", 500, [error |-> "Failed to fetch audio recording"])

AudioGetFailed(err) ==
  IF err.name = "NotFound"
  THEN Reply("audioGet", 404, [error |-> "Audio recording not found"])
  ELSE Reply("audioGet", 500, [error |-> "Failed to fetch audio recording"])

\* DELETE /api/audio/:id
AudioDeleteOk == Reply("audioDelete", 204, [empty |-> TRUE])

AudioDeleteFailed(err) ==
  Reply("audioDelete", 500, [error |-> "Failed to delete audio recording"])

\* What HeadObject raises for a key: the fault of the call if it faulted,
\* NotFound if the bucket does not hold the key, nothing otherwise.
HeadObject(b, key, fault) ==
  IF fault # NoErr THEN fault
  ELSE IF key \notin DOMAIN b THEN NotFoundErr ELSE NoErr

\* -------------------------------------------------------------- state
VARIABLES
  now,      \* Date.now()
  bucket,   \* the S3 bucket: key -> object
  nreq,     \* upload requests with a file so far; the n-th draws Uuid(n)
  pending,  \* uploads whose PutObject is outstanding
  listing,  \* the GET /api/audio whose per-object calls are outstanding
  resp,     \* the latest response sent, with what its request met
  uploads,  \* history: the uploads whose object was stored
  deleted   \* history: the ids whose object a DELETE removed

vars == <<now, bucket, nreq, pending, listing, resp, uploads, deleted>>

NoListing == [active |-> FALSE, items |-> <<>>, raced |-> FALSE]

Init ==
  /\ now = 1
  /\ bucket = <<>>
  /\ nreq = 0
  /\ pending = {}
  /\ listing = NoListing
  /\ resp = NoResp
  /\ uploads = {}
  /\ deleted = {}

\* The ids a client may name: those of the audio objects stored so far, and
\* one that no upload produced.
IdInputs ==
  {GhostId} \cup {SplitPop(u.key, "/") : u \in {v \in uploads : v.kind = "audio"}}

\* The clock advances between any two steps.
Tick ==
  /\ now < MaxTime
  /\ now' = now + 1
  /\ UNCHANGED <<bucket, nreq, pending, listing, resp, uploads, deleted>>

\* app.get('/')
Liveness ==
  /\ resp' = LivenessReply
  /\ UNCHANGED <<now, bucket, nreq, pending, listing, uploads, deleted>>

\* app.post('/upload') up to await s3Client.send(PutObjectCommand).  An error of
\* upload.single('video') itself never reaches this handler.
PlainUploadStart(file) ==
  IF Missing(file)
  THEN /\ resp' = UploadNoFile
       /\ UNCHANGED <<now, bucket, nreq, pending, listing, uploads, deleted>>
  ELSE /\ nreq < MaxUploads
       /\ nreq' = nreq + 1
       /\ pending' = pending \cup
            {[rid |-> nreq + 1, kind |-> "plain", key |-> PlainKey(now, file),
              file |-> file, t |-> now]}
       /\ UNCHANGED <<now, bucket, listing, resp, uploads, deleted>>

\* The history entry of an upload whose PutObject stored its object
Stored(p, r) ==
  [rid |-> p.rid, kind |-> p.kind, key |-> p.key, file |-> p.file, t |-> p.t,
   status |-> r.status, overwrote |-> p.key \in DOMAIN bucket]

\* app.post('/upload') from the PutObject's completion on
PlainUploadPut(p, put) ==
  /\ p \in pending /\ p.kind = "plain"
  /\ pending' = pending \ {p}
  /\ IF put # NoErr
     THEN /\ bucket' = bucket
          /\ resp' = [UploadFailed(put) EXCEPT !.file = p.file,
                        !.calls = <<"put">>, !.err = put]
     ELSE /\ bucket' = PutObject(bucket, p.key, PlainObject(p.file))
          /\ resp' = [UploadOk(p.key) EXCEPT !.file = p.file, !.calls = <<"put">>]
  /\ uploads' = IF put # NoErr THEN uploads ELSE uploads \cup {Stored(p, resp')}
  /\ UNCHANGED <<now, nreq, listing, deleted>>

\* app.get('/videos')
PlainList(list, sign) ==
  /\ LET out == ListObjectsV2(bucket, NoPrefix)
         contents == out.Contents    \* response.Contents || []
         minted == IF Len(contents) = 0 THEN NoErr ELSE sign
         calls == <<"list">> \o [i \in 1..Len(contents) |-> "sign"]
     IN resp' =
          IF list # NoErr
          THEN [VideosFailed(list) EXCEPT !.calls = <<"list">>, !.err = list]
          ELSE IF minted # NoErr
          THEN [VideosFailed(minted) EXCEPT !.calls = calls, !.err = minted]
          ELSE [VideosOk(contents) EXCEPT !.calls = calls]
  /\ UNCHANGED <<now, bucket, nreq, pending, listing, uploads, deleted>>

\* multer's error for a body it could not parse
MulterErrors == { [name |-> "MulterError", message |-> "File too large"] }

\* app.post('/api/audio') up to await s3Client.send(PutObjectCommand)
AudioUploadStart(file, parse) ==
  IF parse # NoErr
  THEN /\ resp' = [AudioParseError(parse) EXCEPT !.err = parse]
       /\ UNCHANGED <<now, bucket, nreq, pending, listing, uploads, deleted>>
  ELSE IF Missing(file)
  THEN /\ resp' = AudioNoFile
       /\ UNCHANGED <<now, bucket, nreq, pending, listing, uploads, deleted>>
  ELSE /\ nreq < MaxUploads
       /\ nreq' = nreq + 1
       /\ pending' = pending \cup
            {[rid |-> nreq + 1, kind |-> "audio",
              key |-> AudioKey(FileId(now, nreq + 1, file)),
              file |-> file, t |-> now]}
       /\ UNCHANGED <<now, bucket, listing, resp, uploads, deleted>>

\* app.post('/api/audio') from the PutObject's completion on
AudioUploadPut(p, put, sign) ==
  /\ p \in pending /\ p.kind = "audio"
  /\ pending' = pending \ {p}
  /\ IF put # NoErr
     THEN /\ bucket' = bucket
          /\ resp' = [AudioUploadFailed(put) EXCEPT !.file = p.file,
                        !.calls = <<"put">>, !.err = put]
     ELSE /\ bucket' = PutObject(bucket, p.key, AudioObject(p.file))
          /\ resp' =
               IF sign # NoErr
               THEN [AudioUploadFailed(sign) EXCEPT !.file = p.file,
                       !.calls = <<"put", "sign">>, !.err = sign]
               ELSE [AudioUploadOk(SplitPop(p.key, "/"), p.file, now) EXCEPT
                       !.file = p.file, !.calls = <<"put", "sign">>]
  /\ uploads' = IF put # NoErr THEN uploads ELSE uploads \cup {Stored(p, resp')}
  /\ UNCHANGED <<now, nreq, listing, deleted>>


\* One enumerated object of GET /api/audio, its callback not yet run
Enumerated(c) ==
  [Key |-> c.Key, Size |-> c.Size, head |-> "pending", sign |-> "none",
   name |-> <<>>, err |-> NoErr]

\* app.get('/api/audio') up to the Promise.all over response.Contents
AudioListStart(list) ==
  /\ ~listing.active
  /\ LET out == ListObjectsV2(bucket, AudioPrefix)
     IN IF list # NoErr
        THEN /\ resp' = [AudioListFailed(list) EXCEPT !.calls = <<"list">>,
                           !.err = list]
             /\ listing' = listing
        ELSE IF ~out.hasContents    \* undefined.map throws into the outer catch
        THEN /\ resp' = [AudioListFailed(TypeErr) EXCEPT !.calls = <<"list">>,
                           !.err = TypeErr]
             /\ listing' = listing
        ELSE /\ listing' = [active |-> TRUE, raced |-> FALSE,
                            items |-> [i \in 1..Len(out.Contents) |->
                                         Enumerated(out.Contents[i])]]
             /\ resp' = resp
  /\ UNCHANGED <<now, bucket, nreq, pending, uploads, deleted>>

\* The map callback of GET /api/audio for one object: HeadObject, then the mint
HeadItem(item, b, head, sign) ==
  LET herr == HeadObject(b, item.Key, head)
  IN IF herr # NoErr
     THEN [item EXCEPT !.head = IF herr.name = "NotFound" THEN "notfound"
                                 ELSE "fault",
                       !.err = herr]
     ELSE IF sign # NoErr
     THEN [item EXCEPT !.head = "ok", !.sign = "fault", !.err = sign]
     ELSE [item EXCEPT !.head = "ok", !.sign = "ok",
                       !.name = OriginalName(b[item.Key].Metadata,
                                             SplitPop(item.Key, "/"))]

\* The callbacks run concurrently: any outstanding one may be served next.
AudioListHead(i, head, sign) ==
  /\ listing.active
  /\ i \in 1..Len(listing.items)
  /\ listing.items[i].head = "pending"
  /\ listing' = [listing EXCEPT
                   !.items[i] = HeadItem(listing.items[i], bucket, head, sign)]
  /\ UNCHANGED <<now, bucket, nreq, pending, resp, uploads, deleted>>

\* The storage calls a finished listing made
ListCalls(items) ==
  <<"list">> \o [i \in 1..Len(items) |-> "head"]
             \o [i \in 1..Len(SelectSeq(items, LAMBDA it : it.head = "ok")) |->
                   "sign"]

\* app.get('/api/audio') once Promise.all has resolved
AudioListRespond ==
  /\ listing.active
  /\ \A i \in 1..Len(listing.items) : listing.items[i].head # "pending"
  /\ resp' = [AudioListOk(listing.items) EXCEPT
                !.calls = ListCalls(listing.items), !.items = listing.items,
                !.raced = listing.raced]
  /\ listing' = NoListing
  /\ UNCHANGED <<now, bucket, nreq, pending, uploads, deleted>>

\* app.get('/api/audio/:id')
AudioGet(id, head, sign) ==
  /\ LET key == AudioKey(id)
         herr == HeadObject(bucket, key, head)
         seen == [id |-> id, existed |-> key \in DOMAIN bucket]
     IN resp' =
          IF herr # NoErr
          THEN [AudioGetFailed(herr) EXCEPT !.id = id,
                  !.existed = seen.existed, !.calls = <<"head">>, !.err = herr]
          ELSE IF sign # NoErr
          THEN [AudioGetFailed(sign) EXCEPT !.id = id,
                  !.existed = seen.existed, !.calls = <<"head", "sign">>,
                  !.err = sign]
          ELSE [AudioGetOk(id, bucket[key].Metadata) EXCEPT !.id = id,
                  !.existed = seen.existed, !.calls = <<"head", "sign">>]
  /\ UNCHANGED <<now, bucket, nreq, pending, listing, uploads, deleted>>

\* Whether a delete of key removes an object the outstanding listing enumerated
Races(l, b, key) ==
  /\ l.active
  /\ key \in DOMAIN b
  /\ \E i \in 1..Len(l.items) : l.items[i].Key = key

\* app.delete('/api/audio/:id')
AudioDelete(id, del) ==
  LET key == AudioKey(id)
  IN IF del # NoErr
     THEN /\ resp' = [AudioDeleteFailed(del) EXCEPT !.id = id,
                        !.existed = key \in DOMAIN bucket,
                        !.calls = <<"delete">>, !.err = del]
          /\ UNCHANGED <<now, bucket, nreq, pending, listing, uploads, deleted>>
     ELSE /\ bucket' = DeleteObject(bucket, key)
          /\ resp' = [AudioDeleteOk EXCEPT !.id = id,
                        !.existed = key \in DOMAIN bucket, !.calls = <<"delete">>]
          /\ deleted' = IF key \in DOMAIN bucket THEN deleted \cup {id}
                        ELSE deleted
          /\ listing' = IF Races(listing, bucket, key)
                        THEN [listing EXCEPT !.raced = TRUE] ELSE listing
          /\ UNCHANGED <<now, nreq, pending, uploads>>

Next ==
  \/ Tick
  \/ Liveness
  \/ \E file \in VideoFiles \cup {NoFile} : PlainUploadStart(file)
  \/ \E p \in pending, put \in Outcomes : PlainUploadPut(p, put)
  \/ \E list \in Outcomes, sign \in Outcomes : PlainList(list, sign)
  \/ \E file \in AudioFiles \cup {NoFile}, parse \in {NoErr} \cup MulterErrors :
       AudioUploadStart(file, parse)
  \/ \E p \in pending, put \in Outcomes, sign \in Outcomes :
       AudioUploadPut(p, put, sign)
  \/ \E list \in Outcomes : AudioListStart(list)
  \/ \E i \in 1..MaxUploads, head \in Outcomes, sign \in Outcomes :
       AudioListHead(i, head, sign)
  \/ AudioListRespond
  \/ \E id \in IdInputs, head \in Outcomes, sign \in Outcomes :
       AudioGet(id, head, sign)
  \/ \E id \in IdInputs, del \in Outcomes : AudioDelete(id, del)

Spec == Init /\ [][Next]_vars


\* ------------------------------------------------------------- claims
UploadOps == {"upload", "audioUpload"}

\* The id under which an audio upload's object was stored
IdOf(u) == SplitPop(u.key, "/")

\* The audio uploads answered 201 whose object no DELETE has removed since
LiveAudio ==
  {u \in uploads : u.kind = "audio" /\ u.status = 201 /\ IdOf(u) \notin deleted}

\* What C1 promises of the stored object and of a GET of the id
RoundTrip(u, faultFree) ==
  /\ u.key \in DOMAIN bucket
  /\ bucket[u.key].Body = u.file.buffer
  /\ bucket[u.key].Metadata.originalname = u.file.originalname
  /\ (resp.op = "audioGet" /\ resp.id = IdOf(u) /\ (faultFree => resp.err = NoErr))
       => /\ resp.status = 200
          /\ resp.body = [id |-> IdOf(u), name |-> u.file.originalname,
                          url |-> SignedUrl(AudioKey(IdOf(u)))]

\* C1 as stated: after a POST /api/audio answered 201 with id I for a file
\* named N with bytes B, and no DELETE of I since, every GET /api/audio/I is
\* answered 200 with id I, name N and a URL signed for audio/I, and audio/I
\* holds B with metadata originalname N.
C1_RoundTrip == \A u \in LiveAudio : RoundTrip(u, FALSE)

\* C1 amended: the same, for every GET /api/audio/I none of whose storage
\* calls (the head, the mint) faults.
C1_RoundTripNoFault == \A u \in LiveAudio : RoundTrip(u, TRUE)

C1_Witness ==
  /\ resp.op = "audioGet" /\ resp.status = 200
  /\ \E u \in LiveAudio : resp.id = IdOf(u) /\ resp.body.name = <<"d", ".", "w">>
  /\ deleted # {}

\* C2: on POST /upload and POST /api/audio, a request whose body parses
\* without a file is answered 400, issues no storage call and leaves the
\* bucket as it was.
C2_NoFileIs400 ==
  [][(/\ resp' # resp
      /\ resp'.op \in UploadOps
      /\ resp'.file = NoFile
      /\ resp'.err = NoErr)
     => (/\ resp'.status = 400
         /\ resp'.calls = <<>>
         /\ pending' = pending
         /\ bucket' = bucket)]_vars

C2_Witness ==
  /\ resp = AudioNoFile
  /\ DOMAIN bucket # {}
  /\ pending # {}

\* C3: a DELETE /api/audio/:id whose storage call does not fault is answered
\* 204 with an empty body whether or not audio/{id} exists; it removes that key
\* and no other, so deleting an absent id changes nothing and a second DELETE
\* leaves the bucket as the first left it.
C3_DeleteIdempotent ==
  [][(/\ resp' # resp
      /\ resp'.op = "audioDelete"
      /\ resp'.err = NoErr)
     => (/\ resp'.status = 204
         /\ resp'.body = [empty |-> TRUE]
         /\ AudioKey(resp'.id) \notin DOMAIN bucket'
         /\ DOMAIN bucket' = (DOMAIN bucket) \ {AudioKey(resp'.id)}
         /\ \A k \in DOMAIN bucket' : bucket'[k] = bucket[k]
         /\ (~resp'.existed => bucket' = bucket))]_vars

C3_Witness ==
  /\ resp.op = "audioDelete" /\ resp.status = 204
  /\ ~resp.existed
  /\ resp.id \in deleted
  /\ DOMAIN bucket # {}

\* C4: GET /api/audio/:id for an id with no object under audio/{id} is answered
\* 404 when the storage service answers the head; 500 is sent only for a fault
\* other than the not-found signal, and 200 only when the head succeeded.
C4_AbsentIs404 ==
  resp.op = "audioGet" =>
    /\ (~resp.existed /\ resp.err \notin Faults) => resp.status = 404
    /\ ~resp.existed => resp.status \in {404, 500}
    /\ resp.status = 500 => resp.err \in Faults
    /\ resp.status = 404 => ~resp.existed /\ resp.err = NotFoundErr
    /\ resp.status = 200 => resp.existed /\ resp.err = NoErr
    /\ resp.status \in {200, 404, 500}

C4_Witness ==
  /\ resp.op = "audioGet" /\ resp.status = 404
  /\ resp.id \in deleted

\* The entries a listing owes to the items it keeps
Owed(kept) ==
  [i \in 1..Len(kept) |->
     [id |-> SplitPop(kept[i].Key, "/"), url |-> SignedUrl(kept[i].Key)]]

\* The id and url of each entry of a listing's body
Listed(body) == [i \in 1..Len(body) |-> [id |-> body[i].id, url |-> body[i].url]]

\* A fault inside one object's callback never fails the request
NoItemFails500 ==
  (resp.op = "audioList" /\ resp.status = 500)
    => resp.items = <<>> /\ resp.calls = <<"list">>

C6_List500OnlyOnListFault ==
  (resp.op = "audioList" /\ resp.status = 500) => resp.err \in Faults

\* C7 as stated: every 500 sent because a storage call faulted carries its
\* label and the fault's message.
C7_Every500HasDetails ==
  (resp.status = 500 /\ resp.err \in Faults)
    => /\ DOMAIN resp.body = {"error", "details"}
       /\ resp.body.details = resp.err.message

\* C7 amended: the 500 of POST /upload and of POST /api/audio carries the label
\* and the fault's message; the 500 of GET /videos, GET /api/audio,
\* GET /api/audio/:id and DELETE /api/audio/:id carries the label alone.
C7_DetailsOnUploadsOnly ==
  (resp.status = 500 /\ resp.err \in Faults)
    => IF resp.op \in UploadOps
       THEN /\ DOMAIN resp.body = {"error", "details"}
            /\ resp.body.details = resp.err.message
            /\ resp.body.error = IF resp.op = "upload" THEN "Upload failed"
                                 ELSE "Audio upload failed"
       ELSE /\ resp.op \in {"videos", "audioList", "audioGet", "audioDelete"}
            /\ DOMAIN resp.body = {"error"}

C7_Witness ==
  /\ resp.op = "audioUpload" /\ resp.status = 500
  /\ resp.calls = <<"put", "sign">>
  /\ resp.body.details = "socket hang up"

\* C8 as stated: no two uploads that were answered with success stored their
\* object under the same key, and no upload replaced an earlier upload's object.
C8_NoSharedKey ==
  /\ \A u, v \in uploads :
       (u.rid # v.rid /\ u.status \in {200, 201} /\ v.status \in {200, 201})
         => u.key # v.key
  /\ \A u \in uploads : ~u.overwrote

\* C8 amended: an audio upload shares its key with no other upload (each draws
\* its own UUID); two plain uploads share a key exactly when they carry the
\* same original name in the same millisecond, and only then does an upload
\* replace an earlier upload's object.
C8_SharedKeyOnlyPlainSameMs ==
  /\ \A u, v \in uploads :
       u.rid # v.rid =>
         (u.key = v.key
            <=> /\ u.kind = "plain" /\ v.kind = "plain"
                /\ u.t = v.t
                /\ u.file.originalname = v.file.originalname)
  /\ \A u \in uploads :
       u.overwrote => /\ u.kind = "plain"
                      /\ \E v \in uploads : v.rid # u.rid /\ v.key = u.key

C8_Witness ==
  /\ \E u, v \in uploads :
       /\ u.rid # v.rid /\ u.kind = "audio" /\ v.kind = "audio"
       /\ u.t = v.t /\ u.file = v.file
       /\ u.key # v.key
       /\ {u.key, v.key} \subseteq DOMAIN bucket


\* The step answered upload u, whose PutObject was served in it
AnsweredNow(u) ==
  /\ u \in uploads' \ uploads
  /\ resp'.op = (IF u.kind = "plain" THEN "upload" ELSE "audioUpload")
  /\ resp'.status = u.status
  /\ resp'.file = u.file

\* The step stored u's file under u's key, which the bucket did not hold, and
\* touched no other object
AddedOne(u) ==
  /\ u.key \notin DOMAIN bucket
  /\ DOMAIN bucket' = (DOMAIN bucket) \cup {u.key}
  /\ \A j \in DOMAIN bucket : bucket'[j] = bucket[j]
  /\ bucket'[u.key].Body = u.file.buffer
  /\ bucket'[u.key].ContentType = u.file.mimetype

\* The step replaced the object of u's key, a plain key, by u's file
ReplacedPlain(u) ==
  /\ u.kind = "plain" /\ ~StartsWith(u.key, AudioPrefix)
  /\ u.key \in DOMAIN bucket
  /\ DOMAIN bucket' = DOMAIN bucket
  /\ \A j \in (DOMAIN bucket) \ {u.key} : bucket'[j] = bucket[j]
  /\ bucket'[u.key].Body = u.file.buffer

\* The step is a DELETE /api/audio/:id that removed audio/{id} and nothing else
RemovedAudio ==
  /\ resp' # resp
  /\ resp'.op = "audioDelete" /\ resp'.status = 204
  /\ DOMAIN bucket' = (DOMAIN bucket) \ {AudioKey(resp'.id)}
  /\ \A k \in DOMAIN bucket' : bucket'[k] = bucket[k]

\* C9 as stated: the bucket changes only by an upload answered with success
\* adding one object, or by DELETE /api/audio/:id removing audio/{id}; the
\* other handlers leave it unchanged, no stored object is modified, and no
\* plain asset is ever removed.
C9_Frame ==
  [][bucket' # bucket =>
       \/ \E u \in uploads' :
            /\ AnsweredNow(u)
            /\ u.status \in {200, 201}
            /\ AddedOne(u)
       \/ RemovedAudio]_vars

\* C9 amended: the bucket changes only by an upload's PutObject succeeding or by
\* DELETE /api/audio/:id removing audio/{id}.  The PutObject adds one object,
\* or, for a plain upload whose key the bucket already holds, replaces that
\* object; POST /api/audio still answers 500 when the mint after its PutObject
\* faults.  The other handlers leave the bucket unchanged, no audio object is
\* modified after creation, and no plain asset is ever removed.
C9_FrameWithOverwrite ==
  [][bucket' # bucket =>
       \/ \E u \in uploads' :
            /\ AnsweredNow(u)
            /\ \/ u.status \in {200, 201}
               \/ /\ u.kind = "audio" /\ u.status = 500
                  /\ resp'.calls = <<"put", "sign">>
            /\ AddedOne(u) \/ ReplacedPlain(u)
       \/ RemovedAudio]_vars

C9_Witness ==
  \E u, v \in uploads :
    /\ u.overwrote /\ v.rid < u.rid /\ v.key = u.key
    /\ v.file.buffer # u.file.buffer
    /\ bucket[u.key].Body = u.file.buffer

\* The ids of the entries of a listing's body
ListedIds(body) == {body[i].id : i \in 1..Len(body)}

====
